---- MODULE Spec2Model ----
(***************************************************************************)
(* Model of insar/timeseries.py: the SBAS matrix builders                  *)
(* (build_A_matrix, find_time_diffs, build_B_matrix), the inversion        *)
(* (invert_sbas), the readers of a directory of interferograms             *)
(* (read_geolist, read_intlist, read_unw_stack) and run_inversion.         *)
(*                                                                         *)
(* A date is modelled by its day ordinal (date.toordinal() up to a fixed   *)
(* offset), so that the difference of two dates is timedelta.days.  The    *)
(* dates of the test data, 2018-04-20, 04-22, 04-28 and 05-02, are the     *)
(* ordinals 20, 22, 28 and 32.  A numpy 1-D array is a sequence, a 2-D     *)
(* array a sequence of rows.  Python indices are 0-based: index k of a     *)
(* Python list is position k + 1 of the sequence.  Real numbers are exact  *)
(* rationals <<numerator, denominator>>; floating-point rounding is not    *)
(* modelled.                                                               *)
(***************************************************************************)
EXTENDS Integers, Sequences, FiniteSets, TLC

\* Bounds of the explored inputs.
MaxDay == 4
MaxDates == 3
MaxPairs == 2
MaxPix == 2

Days == 1..MaxDay

VARIABLES
    geolist,        \* list[date]: the acquisition dates handed to the builders
    intlist,        \* list[(date, date)]: the (early, late) pairs
    timediffs,      \* result of find_time_diffs / argument of invert_sbas
    A,              \* result of build_A_matrix
    B,              \* result of build_B_matrix / argument of invert_sbas
    delta_phis,     \* argument of invert_sbas
    velocity_array, \* first result of invert_sbas
    phi_arr,        \* second result of invert_sbas
    solves,         \* number of np.linalg.lstsq calls that returned
    err,            \* the exception that ended the last call, or "none"
    pc,             \* "start", or the name of the function that was called
    files,          \* the directory igram_path: geolist, intlist, dem.rsc, .unw
    reference,      \* (ref_row, ref_col), the reference pixel of the call
    unw_stack,      \* result of read_unw_stack
    returned,       \* what run_inversion returned: geolist, phi_arr,
                    \* deformation, varr
    log,            \* the records handed to logger.error
    heap            \* the buffers of the ndarray objects of a call of
                    \* invert_sbas, by object id

\* The variables of the file readers and of run_inversion.
ioVars == <<files, reference, unw_stack, returned, log>>

vars == <<geolist, intlist, timediffs, A, B, delta_phis, velocity_array,
          phi_arr, solves, err, pc, files, reference, unw_stack, returned,
          log, heap>>

\* Python's None, for a result that was never bound.
None == <<>>

\* An array argument of invert_sbas: its number of dimensions and its elements.
Arr1(v) == [ndim |-> 1, a |-> v]
Arr2(m) == [ndim |-> 2, a |-> m]
NoArray == [ndim |-> 0, a |-> <<>>]

Range(s) == {s[i] : i \in 1..Len(s)}

Abs(x) == IF x < 0 THEN -x ELSE x

Min(a, b) == IF a < b THEN a ELSE b

RECURSIVE SumSeq(_)
SumSeq(s) == IF s = <<>> THEN 0 ELSE s[1] + SumSeq(Tail(s))

\* list.index(x) and np.where(row == x)[0][0]: the 0-based position of the
\* first element equal to x; -1 stands for the ValueError of a missing element.
index(l, x) ==
    IF \E i \in 1..Len(l) : l[i] = x
    THEN (CHOOSE i \in 1..Len(l) : l[i] = x /\ \A h \in 1..(i - 1) : l[h] # x) - 1
    ELSE -1

\* l[1:]
DropFirst(l) == SubSeq(l, 2, Len(l))

\* np.zeros(n)
zeros(n) == [k \in 1..n |-> 0]

\* A_row with its two assignments in the other order: the +1 of the late
\* date first, then the -1 of the early date when it is found.
A_row_early_after_late(g, pair) ==
    LET idx_early == index(g, pair[1])
        idx_late == index(g, pair[2])
        r0 == zeros(Len(g))
        r1 == [r0 EXCEPT ![idx_late + 1] = 1]
    IN  IF idx_early >= 0 THEN [r1 EXCEPT ![idx_early + 1] = -1] ELSE r1

\* A_row whose early lookup, when it fails, ends the pass: the +1 of the late
\* date is not placed.
A_row_miss_skips_late(g, pair) ==
    LET idx_early == index(g, pair[1])
        idx_late == index(g, pair[2])
        r0 == zeros(Len(g))
    IN  IF idx_early >= 0
        THEN [[r0 EXCEPT ![idx_early + 1] = -1] EXCEPT ![idx_late + 1] = 1]
        ELSE r0

\* A_row with the two signs exchanged.
A_row_signs_swapped(g, pair) ==
    LET idx_early == index(g, pair[1])
        idx_late == index(g, pair[2])
        r0 == zeros(Len(g))
        r1 == IF idx_early >= 0 THEN [r0 EXCEPT ![idx_early + 1] = 1] ELSE r0
    IN  [r1 EXCEPT ![idx_late + 1] = -1]

\* One pass of the loop body of build_A_matrix for a pair whose late date is
\* in g: the try block sets -1 when the early date is found, then +1 is set.
A_row(g, pair) ==
    LET idx_early == index(g, pair[1])
        idx_late == index(g, pair[2])
        r0 == zeros(Len(g))
        r1 == IF idx_early >= 0 THEN [r0 EXCEPT ![idx_early + 1] = -1] ELSE r0
    IN  [r1 EXCEPT ![idx_late + 1] = 1]

\* build_A_matrix with the late lookup inside the try block as well: a missing
\* late date leaves the row without its +1 instead of raising.
build_A_matrix_late_in_try(gl, il) ==
    LET g == DropFirst(gl)
        M == Len(il)
    IN  [err |-> "none",
         val |-> [j \in 1..M |->
                    IF index(g, il[j][2]) < 0
                    THEN IF index(g, il[j][1]) >= 0
                         THEN [zeros(Len(g)) EXCEPT ![index(g, il[j][1]) + 1] = -1]
                         ELSE zeros(Len(g))
                    ELSE A_row(g, il[j])]]

\* build_A_matrix: the first pair whose late date is missing from geolist[1:]
\* raises ValueError out of the function (only the early lookup is in a try).
build_A_matrix(gl, il) ==
    LET g == DropFirst(gl)
        M == Len(il)
    IN  IF \E j \in 1..M : index(g, il[j][2]) < 0
        THEN [err |-> "ValueError", val |-> None]
        ELSE [err |-> "none", val |-> [j \in 1..M |-> A_row(g, il[j])]]

\* find_time_diffs with the subtraction reversed.
find_time_diffs_reversed(gl) == [i \in 1..(Len(gl) - 1) |-> gl[i] - gl[i + 1]]

\* find_time_diffs: difference.days of np.diff(geolist).
find_time_diffs(gl) == [i \in 1..(Len(gl) - 1) |-> gl[i + 1] - gl[i]]

\* B_row that starts at the column of the -1 instead of the one after it.
B_row_start_at_early(row, td) ==
    LET start_idx == IF -1 \in Range(row) THEN index(row, -1) ELSE 0
        end_idx == index(row, 1) + 1
    IN  [k \in 1..Len(row) |->
            IF start_idx <= k - 1 /\ k - 1 < Min(end_idx, Len(td))
            THEN td[k] ELSE 0]

\* B_row whose end index leaves out the column of the +1.
B_row_end_exclusive(row, td) ==
    LET start_idx == IF -1 \in Range(row) THEN index(row, -1) + 1 ELSE 0
        end_idx == index(row, 1)
    IN  [k \in 1..Len(row) |->
            IF start_idx <= k - 1 /\ k - 1 < Min(end_idx, Len(td))
            THEN td[k] ELSE 0]

\* One pass of the loop body of build_B_matrix:
\* B[j][start_idx:end_idx] = timediffs[start_idx:end_idx] on a row of zeros.
B_row(row, td) ==
    LET start_idx == IF -1 \in Range(row) THEN index(row, -1) + 1 ELSE 0
        end_idx == index(row, 1) + 1
    IN  [k \in 1..Len(row) |->
            IF start_idx <= k - 1 /\ k - 1 < Min(end_idx, Len(td))
            THEN td[k] ELSE 0]

\* build_B_matrix: time diffs, then A (whose error propagates), then the rows.
build_B_matrix(gl, il) ==
    LET td == find_time_diffs(gl)
        a == build_A_matrix(gl, il)
    IN  IF a.err # "none"
        THEN [err |-> a.err, val |-> None]
        ELSE [err |-> "none", val |-> [j \in 1..Len(a.val) |-> B_row(a.val[j], td)]]

(***************************************************************************)
(* Inputs.  read_geolist returns sorted(...), so a date list is in         *)
(* ascending order (a manifest naming one date twice yields it twice).     *)
(* read_intlist returns the pairs as written, with no check against the    *)
(* date list.                                                              *)
(***************************************************************************)
IsSorted(l) == \A i \in 1..(Len(l) - 1) : l[i] <= l[i + 1]

GeoInputs ==
    UNION {{l \in [1..n -> Days] : IsSorted(l)} : n \in 2..MaxDates}

IntInputs == UNION {[1..m -> Days \X Days] : m \in 1..MaxPairs}

\* The data of tests/data/sbas_test used by test_timeseries.py.
TestGeolist == <<20, 22, 28, 32>>
TestIntlist == <<<<20, 22>>, <<20, 28>>, <<22, 28>>, <<22, 32>>, <<28, 32>>>>
TestDeltaPhis == <<2, 14, 12, 14, 2>>

\* A network of two disconnected clusters of pairs: no pair spans the
\* interval between the second and the third date.
ClusterGeolist == <<1, 2, 4, 7>>
ClusterIntlist == <<<<1, 2>>, <<4, 7>>>>

Unbound ==
    /\ timediffs = None
    /\ A = None
    /\ B = None
    /\ delta_phis = NoArray
    /\ velocity_array = None
    /\ phi_arr = None
    /\ solves = 0
    /\ err = "none"
    /\ pc = "start"
    /\ heap = <<>>

\* No directory is read: the builders and invert_sbas are called directly.
NoIO ==
    /\ files = None
    /\ reference = None
    /\ unw_stack = None
    /\ returned = None
    /\ log = <<>>

Init ==
    /\ \/ geolist \in GeoInputs /\ intlist \in IntInputs
       \/ geolist = TestGeolist /\ intlist = TestIntlist
    /\ Unbound
    /\ NoIO

\* timeseries.find_time_diffs(geolist)
CallFindTimeDiffs ==
    /\ pc = "start"
    /\ timediffs' = find_time_diffs(geolist)
    /\ pc' = "find_time_diffs"
    /\ UNCHANGED <<geolist, intlist, A, B, delta_phis, velocity_array,
                   phi_arr, solves, err, ioVars, heap>>

\* timeseries.build_A_matrix(geolist, intlist)
CallBuildA ==
    /\ pc = "start"
    /\ LET r == build_A_matrix(geolist, intlist)
       IN  A' = r.val /\ err' = r.err
    /\ pc' = "build_A_matrix"
    /\ UNCHANGED <<geolist, intlist, timediffs, B, delta_phis, velocity_array,
                   phi_arr, solves, ioVars, heap>>

\* timeseries.build_B_matrix(geolist, intlist)
CallBuildB ==
    /\ pc = "start"
    /\ LET r == build_B_matrix(geolist, intlist)
       IN  B' = r.val /\ err' = r.err
    /\ pc' = "build_B_matrix"
    /\ UNCHANGED <<geolist, intlist, timediffs, A, delta_phis, velocity_array,
                   phi_arr, solves, ioVars, heap>>

Next == CallFindTimeDiffs \/ CallBuildA \/ CallBuildB

Spec == Init /\ [][Next]_vars

(***************************************************************************)
(* The inputs the spec calls valid: dates sorted, unique, at least two;    *)
(* every pair has early < late and both dates in the date list.            *)
(***************************************************************************)
ValidDates(D) ==
    /\ Len(D) >= 2
    /\ \A i \in 1..(Len(D) - 1) : D[i] < D[i + 1]

ValidPairs(D, P) ==
    \A j \in 1..Len(P) :
        /\ P[j][1] < P[j][2]
        /\ P[j][1] \in Range(D)
        /\ P[j][2] \in Range(D)

\* The 0-based column of date d in D[1:], for d in D[1:] and D unique.
ColOf(D, d) == (CHOOSE i \in 2..Len(D) : D[i] = d) - 2

CountOf(row, x) == Cardinality({k \in 1..Len(row) : row[k] = x})

\* C1: for valid dates D and pairs P, every row of build_A_matrix(D, P) has
\* exactly one +1, at the column of the late date in D[1:], and exactly one
\* -1, at the column of the early date, or no -1 when the early date is D[0];
\* every other entry is 0.
C1_IncidenceRows ==
    (pc = "build_A_matrix" /\ ValidDates(geolist) /\ ValidPairs(geolist, intlist))
    => /\ err = "none"
       /\ Len(A) = Len(intlist)
       /\ \A j \in 1..Len(intlist) :
            LET early == intlist[j][1]
                late == intlist[j][2]
                row == A[j]
            IN  /\ Len(row) = Len(geolist) - 1
                /\ CountOf(row, 1) = 1
                /\ row[ColOf(geolist, late) + 1] = 1
                /\ IF early = geolist[1]
                   THEN CountOf(row, -1) = 0
                   ELSE /\ CountOf(row, -1) = 1
                        /\ row[ColOf(geolist, early) + 1] = -1
                /\ \A k \in 1..Len(row) : row[k] \in {-1, 0, 1}

\* A returned matrix with one row that starts at D[0] and one that does not.
C1_Witness ==
    /\ pc = "build_A_matrix" /\ err = "none"
    /\ ValidDates(geolist) /\ ValidPairs(geolist, intlist)
    /\ \E j \in 1..Len(intlist) : intlist[j][1] = geolist[1]
    /\ \E j \in 1..Len(intlist) :
        /\ intlist[j][1] # geolist[1]
        /\ CountOf(A[j], -1) = 1 /\ CountOf(A[j], 1) = 1

\* C2: for valid dates and pairs, row j of build_B_matrix(D, P) is
\* timediffs[k] at every column k with start_idx <= k < end_idx and 0 at every
\* other column, where end_idx is the column of the late date in D[1:] plus 1
\* and start_idx the column of the early date plus 1, or 0 when early is D[0].
C2_DesignRows ==
    (pc = "build_B_matrix" /\ ValidDates(geolist) /\ ValidPairs(geolist, intlist))
    => /\ err = "none"
       /\ Len(B) = Len(intlist)
       /\ \A j \in 1..Len(intlist) :
            LET early == intlist[j][1]
                late == intlist[j][2]
                td == find_time_diffs(geolist)
                end_idx == ColOf(geolist, late) + 1
                start_idx == IF early = geolist[1] THEN 0
                             ELSE ColOf(geolist, early) + 1
            IN  /\ Len(B[j]) = Len(geolist) - 1
                /\ \A k \in 0..(Len(geolist) - 2) :
                     B[j][k + 1] = IF start_idx <= k /\ k < end_idx
                                   THEN td[k + 1] ELSE 0

\* A returned B with a row that starts after column 0 and spans two columns.
C2_Witness ==
    /\ pc = "build_B_matrix" /\ err = "none"
    /\ ValidDates(geolist) /\ ValidPairs(geolist, intlist)
    /\ \E j \in 1..Len(intlist) :
        /\ B[j][1] = 0
        /\ CountOf(B[j], 0) <= Len(B[j]) - 2

\* C3: for valid dates and pairs, the entries of row j of build_B_matrix(D, P)
\* sum to the number of days from the row's early date to its late date.
C3_RowSumIsElapsedDays ==
    (pc = "build_B_matrix" /\ ValidDates(geolist) /\ ValidPairs(geolist, intlist))
    => /\ err = "none"
       /\ \A j \in 1..Len(intlist) :
            SumSeq(B[j]) = intlist[j][2] - intlist[j][1]

\* A returned B with a row that adds up two different time diffs.
C3_Witness ==
    /\ pc = "build_B_matrix" /\ err = "none"
    /\ ValidDates(geolist) /\ ValidPairs(geolist, intlist)
    /\ \E j \in 1..Len(intlist) : \E k \in 1..(Len(B[j]) - 1) :
        /\ B[j][k] > 0 /\ B[j][k + 1] > 0 /\ B[j][k] # B[j][k + 1]
        /\ SumSeq(B[j]) = intlist[j][2] - intlist[j][1]

\* C4: for a sorted, unique date list D, find_time_diffs(D) has length
\* len(D) - 1, entry i is the day count D[i+1] - D[i], and every entry is a
\* positive integer.
C4_TimeDiffs ==
    (pc = "find_time_diffs" /\ ValidDates(geolist))
    => /\ Len(timediffs) = Len(geolist) - 1
       /\ \A i \in 1..(Len(geolist) - 1) :
            /\ timediffs[i] = geolist[i + 1] - geolist[i]
            /\ timediffs[i] \in Nat \ {0}

\* The time diffs [2, 6, 4] of the test data.
C4_Witness ==
    /\ pc = "find_time_diffs"
    /\ geolist = TestGeolist
    /\ timediffs = <<2, 6, 4>>

\* C8: if some pair's late date is not in dates[1:], build_A_matrix, and so
\* build_B_matrix, ends with the ValueError of the failed lookup and returns
\* no matrix.
C8_MissingLateIsFatal ==
    (/\ pc \in {"build_A_matrix", "build_B_matrix"}
     /\ \E j \in 1..Len(intlist) : intlist[j][2] \notin Range(DropFirst(geolist)))
    => /\ err = "ValueError"
       /\ A = None
       /\ B = None

\* build_B_matrix raised on a second pair whose late date is the reference
\* date, after a first pair that is fine.
C8_Witness ==
    /\ pc = "build_B_matrix" /\ err = "ValueError"
    /\ Len(intlist) = 2
    /\ intlist[1][2] \in Range(DropFirst(geolist))
    /\ intlist[2][2] = geolist[1]
    /\ intlist[2][2] \notin Range(DropFirst(geolist))

(***************************************************************************)
(* Exact rational arithmetic: <<n, d>> with d > 0 and gcd(n, d) = 1.       *)
(***************************************************************************)
RECURSIVE GCD(_, _)
GCD(a, b) == IF b = 0 THEN a ELSE GCD(b, a % b)

Rat(n, d) ==
    LET g == GCD(Abs(n), Abs(d))
        sgn == IF d < 0 THEN -1 ELSE 1
    IN  <<(sgn * n) \div g, (sgn * d) \div g>>

RInt(n) == <<n, 1>>
RAdd(p, q) == Rat(p[1] * q[2] + q[1] * p[2], p[2] * q[2])
RMul(p, q) == Rat(p[1] * q[1], p[2] * q[2])
RScale(n, p) == Rat(n * p[1], p[2])
RLeq(p, q) == p[1] * q[2] <= q[1] * p[2]

RECURSIVE RSum(_)
RSum(s) == IF s = <<>> THEN RInt(0) ELSE RAdd(s[1], RSum(Tail(s)))

(***************************************************************************)
(* np.linalg.lstsq(B, d, rcond=None): the least-squares solution of        *)
(* B x = d of minimum Euclidean norm, one solution per column of d.  It is *)
(* x = G w for any w with G G w = c, where G = B^T B and c = B^T d: such   *)
(* an x satisfies the normal equations G x = c and lies in the row space   *)
(* of B.  The system is solved by fraction-free Gauss-Jordan elimination.  *)
(***************************************************************************)
\* The sequence s itself, as a tuple whose elements are already evaluated.
Tup(s) == s \o <<>>

Transpose(m) == Tup([k \in 1..Len(m[1]) |-> Tup([j \in 1..Len(m) |-> m[j][k]])])

RECURSIVE DotFrom(_, _, _)
DotFrom(u, v, i) ==
    IF i > Len(u) THEN 0 ELSE u[i] * v[i] + DotFrom(u, v, i + 1)

\* The inner product of two integer vectors.
Dot(u, v) == DotFrom(u, v, 1)

MatVec(m, v) == Tup([i \in 1..Len(m) |-> Dot(m[i], v)])

MatMul(m1, m2) ==
    LET t == Transpose(m2)
    IN  Tup([i \in 1..Len(m1) |-> Tup([k \in 1..Len(t) |-> Dot(m1[i], t[k])])])

RECURSIVE GCDSeq(_)
GCDSeq(s) == IF s = <<>> THEN 0 ELSE GCD(Abs(s[1]), GCDSeq(Tail(s)))

Reduce(row) ==
    LET g == GCDSeq(row)
    IN  IF g = 0 THEN row ELSE Tup([k \in 1..Len(row) |-> row[k] \div g])

\* Gauss-Jordan on the augmented rows: piv[c] is the pivot row of column c,
\* or 0 when column c has no pivot.
RECURSIVE GaussJordan(_, _, _, _)
GaussJordan(rows, col, used, piv) ==
    IF col > Len(piv)
    THEN [rows |-> rows, piv |-> piv]
    ELSE LET cand == {r \in (1..Len(rows)) \ used : rows[r][col] # 0}
         IN  IF cand = {}
             THEN GaussJordan(rows, col + 1, used, piv)
             ELSE LET p == CHOOSE r \in cand : \A r2 \in cand : r <= r2
                      nrows == Tup([r \in 1..Len(rows) |->
                                  IF r = p THEN rows[p]
                                  ELSE Reduce(Tup([k \in 1..Len(rows[r]) |->
                                          rows[p][col] * rows[r][k]
                                          - rows[r][col] * rows[p][k]]))])
                  IN  GaussJordan(nrows, col + 1, used \cup {p},
                                  [piv EXCEPT ![col] = p])

\* A solution of the consistent system m w = c, its free variables set to 0.
SolveAny(m, c) ==
    LET n == Len(m)
        aug == Tup([i \in 1..n |-> Reduce(Append(m[i], c[i]))])
        gj == GaussJordan(aug, 1, {}, [k \in 1..n |-> 0])
    IN  Tup([k \in 1..n |->
            IF gj.piv[k] = 0 THEN RInt(0)
            ELSE Rat(gj.rows[gj.piv[k]][n + 1], gj.rows[gj.piv[k]][k])])

\* A solution of the normal equations with its free variables set to 0: a
\* least-squares solution, but not the shortest one when B is rank-deficient.
lstsq_col_basic(Bm, d) ==
    LET Bt == Transpose(Bm)
    IN  SolveAny(MatMul(Bt, Bm), MatVec(Bt, d))

\* The minimum-norm least-squares solution for one right-hand side.
lstsq_col(Bm, d) ==
    LET Bt == Transpose(Bm)
        G == MatMul(Bt, Bm)
        c == MatVec(Bt, d)
        w == SolveAny(MatMul(G, G), c)
    IN  Tup([i \in 1..Len(G) |->
            RSum(Tup([k \in 1..Len(G) |-> RScale(G[i][k], w[k])]))])


\* Column k of a 2-D array.
Col(m, k) == Tup([j \in 1..Len(m) |-> m[j][k]])

\* np.linalg.lstsq(B, d, rcond=None)[0]: a 1-D d gives a 1-D solution, a 2-D
\* d of K columns gives the K solutions as the columns of a 2-D array.
lstsq(Bm, d) ==
    IF d.ndim = 1
    THEN Arr1(lstsq_col(Bm, d.a))
    ELSE LET K == Len(d.a[1])
             sol == Tup([k \in 1..K |-> lstsq_col(Bm, Col(d.a, k))])
         IN  Arr2(Tup([i \in 1..Len(Bm[1]) |-> Tup([k \in 1..K |-> sol[k][i]])]))

\* np.expand_dims(v, axis=-1) of a 1-D array: shape (n,) becomes (n, 1).
expand_dims(v) == Tup([i \in 1..Len(v) |-> <<v[i]>>])

\* The product with the time diffs laid along the pixel axis: column k is
\* multiplied by the time diff of index k instead of row i by that of index i.
phi_diffs_of_along_pixels(td, velocity) ==
    Tup([i \in 1..Len(td) |->
        Tup([k \in 1..Len(velocity[i]) |->
            RScale(td[Min(k, Len(td))], velocity[i][k])])])

\* timediffs.reshape((-1, 1)) * velocity_array, for len(timediffs) rows.
phi_diffs_of(td, velocity) ==
    Tup([i \in 1..Len(td) |->
        Tup([k \in 1..Len(velocity[i]) |-> RScale(td[i], velocity[i][k])])])

\* np.cumsum(m, axis=1): the sums run along the pixel axis of each row.
cumsum_along_pixels(m) ==
    Tup([i \in 1..Len(m) |->
        Tup([k \in 1..Len(m[i]) |-> RSum(Tup([h \in 1..k |-> m[i][h]]))])])

\* np.cumsum(m, axis=0)
cumsum(m) ==
    Tup([i \in 1..Len(m) |->
        Tup([k \in 1..Len(m[i]) |-> RSum(Tup([h \in 1..i |-> m[h][k]]))])])

\* np.insert(m, 0, 0, axis=0) with the inserted row at the end instead.
insert_zero_row_last(m) == Append(m, Tup([k \in 1..Len(m[1]) |-> RInt(0)]))

\* np.insert(m, 0, 0, axis=0): a row of zeros before row 0.
insert_zero_row(m) == <<Tup([k \in 1..Len(m[1]) |-> RInt(0)])>> \o m

\* invert_sbas after its assertion, with the cumulative sum taken of the
\* velocities themselves.
solve_and_integrate_no_timediffs(delta, td, Bm) ==
    IF Len(delta.a) # Len(Bm)
    THEN [err |-> "LinAlgError", velocity |-> None, phi |-> None, solves |-> 0]
    ELSE LET sol == lstsq(Bm, delta)
             velocity == IF sol.ndim = 1 THEN expand_dims(sol.a) ELSE sol.a
         IN  [err |-> "none", velocity |-> velocity,
              phi |-> insert_zero_row(cumsum(velocity)), solves |-> 1]

\* invert_sbas after its assertion, without the row inserted for time 0.
solve_and_integrate_no_insert(delta, td, Bm) ==
    IF Len(delta.a) # Len(Bm)
    THEN [err |-> "LinAlgError", velocity |-> None, phi |-> None, solves |-> 0]
    ELSE LET sol == lstsq(Bm, delta)
             velocity == IF sol.ndim = 1 THEN expand_dims(sol.a) ELSE sol.a
         IN  [err |-> "none", velocity |-> velocity,
              phi |-> cumsum(phi_diffs_of(td, velocity)), solves |-> 1]

\* invert_sbas after its assertion: lstsq raises LinAlgError when B and
\* delta_phis differ in their number of rows; otherwise the solution is made
\* 2-D, multiplied by the time diffs, summed along time and given a zero row.
solve_and_integrate(delta, td, Bm) ==
    IF Len(delta.a) # Len(Bm)
    THEN [err |-> "LinAlgError", velocity |-> None, phi |-> None, solves |-> 0]
    ELSE LET sol == lstsq(Bm, delta)
             velocity == IF sol.ndim = 1 THEN expand_dims(sol.a) ELSE sol.a
             phi_diffs == phi_diffs_of(td, velocity)
         IN  [err |-> "none", velocity |-> velocity,
              phi |-> insert_zero_row(cumsum(phi_diffs)), solves |-> 1]

\* invert_sbas without its assertion: the solve is done first, and the
\* multiplication by time diffs of another length fails to broadcast.
invert_sbas_no_assert(delta, td, Bm) ==
    IF Len(Bm[1]) # Len(td)
    THEN [err |-> "ValueError", velocity |-> None, phi |-> None,
          solves |-> IF Len(delta.a) = Len(Bm) THEN 1 ELSE 0]
    ELSE solve_and_integrate(delta, td, Bm)

\* invert_sbas(delta_phis, timediffs, B)
invert_sbas(delta, td, Bm) ==
    IF Len(Bm[1]) # Len(td)
    THEN [err |-> "AssertionError", velocity |-> None, phi |-> None, solves |-> 0]
    ELSE solve_and_integrate(delta, td, Bm)

(***************************************************************************)
(* The inversion, on the networks the spec calls valid and on the test     *)
(* data.  invert_sbas takes B from build_B_matrix; its timediffs argument  *)
(* is find_time_diffs of the same date list or of another one, and its     *)
(* delta_phis a vector or a table of pixel columns.                        *)
(***************************************************************************)
ValidGeoInputs == {l \in GeoInputs : ValidDates(l)}

ValidIntInputs(D) == {P \in IntInputs : ValidPairs(D, P)}

\* The pixel columns tried, for M interferograms: the same phase difference
\* everywhere, alternating ones, and increasing ones.
DeltaCols(M) ==
    <<[j \in 1..M |-> 2],
      [j \in 1..M |-> IF j % 2 = 1 THEN -1 ELSE 2],
      [j \in 1..M |-> j]>>

\* The delta_phis tried: each pixel column as a vector, a vector one too
\* long, and the tables of K columns that follow each other in DeltaCols.
DeltaArgs(M) ==
    {Arr1(DeltaCols(M)[c]) : c \in 1..3}
    \cup {Arr1([j \in 1..(M + 1) |-> 2])}
    \cup {Arr2([j \in 1..M |->
                    [k \in 1..K |-> DeltaCols(M)[((c + k - 2) % 3) + 1][j]]]) :
                c \in 1..3, K \in 1..MaxPix}

TimediffArgs(D) == {find_time_diffs(D), find_time_diffs(DropFirst(D))}

InitInv ==
    /\ \/ geolist \in ValidGeoInputs /\ intlist \in ValidIntInputs(geolist)
       \/ geolist = TestGeolist /\ intlist = TestIntlist
       \/ geolist = ClusterGeolist /\ intlist = ClusterIntlist
    /\ Unbound
    /\ NoIO

\* timeseries.invert_sbas(delta_phis, timediffs, B)
CallInvertSbas ==
    /\ pc = "build_B_matrix"
    /\ err = "none"
    /\ \E td \in TimediffArgs(geolist) :
       \E d \in IF intlist = TestIntlist THEN {Arr1(TestDeltaPhis)}
                ELSE DeltaArgs(Len(B)) :
       \E r \in {invert_sbas(d, td, B)} :
                /\ timediffs' = td
                /\ delta_phis' = d
                /\ velocity_array' = r.velocity
                /\ phi_arr' = r.phi
                /\ solves' = solves + r.solves
                /\ err' = r.err
    /\ pc' = "invert_sbas"
    /\ UNCHANGED <<geolist, intlist, A, B, ioVars, heap>>

NextInv == CallBuildB \/ CallInvertSbas

SpecInv == InitInv /\ [][NextInv]_vars

(***************************************************************************)
(* Vocabulary of the inversion claims.                                     *)
(***************************************************************************)
\* The determinant, by expansion along the first row.
RECURSIVE Det(_)
Det(m) ==
    IF Len(m) = 1 THEN m[1][1]
    ELSE SumSeq(Tup([k \in 1..Len(m) |->
            (IF k % 2 = 1 THEN 1 ELSE -1) * m[1][k]
            * Det(Tup([i \in 1..(Len(m) - 1) |->
                    Tup([h \in 1..(Len(m) - 1) |->
                        m[i + 1][IF h < k THEN h ELSE h + 1]])]))]))

Gram(Bm) == MatMul(Transpose(Bm), Bm)

\* B has full column rank exactly when its Gram matrix is regular.
FullColumnRank(Bm) == Det(Gram(Bm)) # 0

\* The number of pixel columns of a delta_phis argument.
NumPix(d) == IF d.ndim = 1 THEN 1 ELSE Len(d.a[1])

\* Pixel column k of a delta_phis argument.
PixCol(d, k) == IF d.ndim = 1 THEN d.a ELSE Col(d.a, k)

\* The product of an integer row and a rational vector.
RDot(row, v) == RSum(Tup([k \in 1..Len(row) |-> RScale(row[k], v[k])]))

\* B v = d, for a rational v and an integer d.
Solves(Bm, v, d) == \A j \in 1..Len(Bm) : RDot(Bm[j], v) = RInt(d[j])

\* The squared Euclidean norm of a rational vector.
Norm2(v) == RSum(Tup([k \in 1..Len(v) |-> RMul(v[k], v[k])]))

\* [0, cumulative sums of timediffs * v]
PhaseOf(td, v) ==
    <<RInt(0)>> \o Tup([i \in 1..Len(td) |->
                    RSum(Tup([h \in 1..i |-> RScale(td[h], v[h])]))])

\* The velocities compared against: every vector over -2, -1, -1/2, 0, 1/2,
\* 1, 2, each given by its entries times two.
CandHalves(n) == [1..n -> {-4, -2, -1, 0, 1, 2, 4}]
FromHalves(h) == Tup([k \in 1..Len(h) |-> Rat(h[k], 2)])

\* m (h / 2) = d, for integer m, h and d.
HalvesSolve(m, h, d) == \A j \in 1..Len(m) : Dot(m[j], h) = 2 * d[j]

\* Integer vectors that may span the null space of B.
NullBox(n) == [1..n -> -3..3]

InvertReturned == pc = "invert_sbas" /\ err = "none"

C6_PhaseStartsAtZero ==
    InvertReturned =>
        \A k \in 1..NumPix(delta_phis) : phi_arr[1][k] = RInt(0)

\* A returned phase array of two pixel columns whose later entries are not 0.
C6_Witness ==
    /\ InvertReturned
    /\ NumPix(delta_phis) = 2
    /\ phi_arr[1] = <<RInt(0), RInt(0)>>
    /\ phi_arr[2][1] # RInt(0) /\ phi_arr[2][2] # RInt(0)

C9_ShapeMismatchAsserts ==
    (pc = "invert_sbas" /\ Len(B[1]) # Len(timediffs))
    => /\ err = "AssertionError"
       /\ solves = 0
       /\ velocity_array = None
       /\ phi_arr = None

\* invert_sbas was called with time diffs one shorter than B is wide.
C9_Witness ==
    /\ pc = "invert_sbas" /\ err = "AssertionError"
    /\ Len(B[1]) = 2 /\ Len(timediffs) = 1
    /\ Len(delta_phis.a) = Len(B)

\* C10: for a rank-deficient B, invert_sbas raises no error and returns the
\* least-squares solution of minimum norm (it satisfies the normal equations,
\* it is orthogonal to the null space of B, and no other least-squares
\* solution is shorter) together with the phase reconstructed from it.
C10_RankDeficientMinNorm ==
    (/\ pc = "invert_sbas"
     /\ Len(B[1]) = Len(timediffs)
     /\ Len(delta_phis.a) = Len(B)
     /\ ~FullColumnRank(B))
    => /\ err = "none"
       /\ \A k \in 1..NumPix(delta_phis) :
          \A v \in {Col(velocity_array, k)} :
          \A n \in {Len(B[1])} :
          \A G \in {Gram(B)} :
          \A c \in {MatVec(Transpose(B), PixCol(delta_phis, k))} :
                /\ Len(v) = n
                /\ Solves(G, v, c)
                /\ \A z \in NullBox(n) :
                     (\A j \in 1..Len(B) : Dot(B[j], z) = 0)
                     => RDot(z, v) = RInt(0)
                /\ \A h \in CandHalves(n) :
                     HalvesSolve(G, h, c)
                     => RLeq(Norm2(v), Norm2(FromHalves(h)))
                /\ Col(phi_arr, k) = PhaseOf(timediffs, v)

\* The network of two disconnected clusters was inverted: the interval
\* between the clusters gets velocity 0, the other two do not.
C10_Witness ==
    /\ InvertReturned
    /\ geolist = ClusterGeolist /\ intlist = ClusterIntlist
    /\ ~FullColumnRank(B)
    /\ velocity_array[1][1] # RInt(0)
    /\ velocity_array[2][1] = RInt(0)
    /\ velocity_array[3][1] # RInt(0)

(***************************************************************************)
(* Text.  A str is the sequence of its characters, each a one-character    *)
(* string.  The methods are those of Python's str.                         *)
(***************************************************************************)
Digit == <<"0", "1", "2", "3", "4", "5", "6", "7", "8", "9">>

IsDigit(ch) == \E k \in 1..10 : Digit[k] = ch

DigitVal(ch) == (CHOOSE k \in 1..10 : Digit[k] = ch) - 1

\* int(s) for a str of decimal digits
RECURSIVE int(_)
int(s) ==
    IF s = <<>> THEN 0
    ELSE 10 * int(SubSeq(s, 1, Len(s) - 1)) + DigitVal(s[Len(s)])

RECURSIVE lstrip(_, _)
lstrip(s, chars) ==
    IF s # <<>> /\ s[1] \in chars THEN lstrip(Tail(s), chars) ELSE s

RECURSIVE rstrip(_, _)
rstrip(s, chars) ==
    IF s # <<>> /\ s[Len(s)] \in chars
    THEN rstrip(SubSeq(s, 1, Len(s) - 1), chars)
    ELSE s

\* s.strip(chars): chars is a set of characters, not a suffix
strip(s, chars) == rstrip(lstrip(s, chars), chars)

\* s.split(sep): one more piece than there are separators
RECURSIVE split(_, _)
split(s, sep) ==
    IF \A k \in 1..Len(s) : s[k] # sep THEN <<s>>
    ELSE LET k == CHOOSE k \in 1..Len(s) :
                      s[k] = sep /\ \A j \in 1..(k - 1) : s[j] # sep
         IN  <<SubSeq(s, 1, k - 1)>> \o split(SubSeq(s, k + 1, Len(s)), sep)

(***************************************************************************)
(* datetime.  A datetime.date is the day ordinal date.toordinal() - Epoch, *)
(* Epoch being the ordinal of 2018-03-31, so that 2018-04-20 is 20.        *)
(***************************************************************************)
is_leap(y) == y % 4 = 0 /\ (y % 100 # 0 \/ y % 400 = 0)

days_in_month(y, m) ==
    IF m = 2 THEN (IF is_leap(y) THEN 29 ELSE 28)
    ELSE <<31, 0, 31, 30, 31, 30, 31, 31, 30, 31, 30, 31>>[m]

RECURSIVE days_before_month(_, _)
days_before_month(y, m) ==
    IF m = 1 THEN 0
    ELSE days_before_month(y, m - 1) + days_in_month(y, m - 1)

toordinal(y, m, d) ==
    LET p == y - 1
    IN  365 * p + (p \div 4) - (p \div 100) + (p \div 400)
        + days_before_month(y, m) + d

Epoch == toordinal(2018, 3, 31)

\* The character at position k of s, "" past its end.
At(s, k) == IF k \in 1..Len(s) THEN s[k] ELSE ""

Positive(n) == n > 0

NonZeroDigit(ch) == IsDigit(ch) /\ ch # "0"

\* %m is the regex 1[0-2]|0[1-9]|[1-9]: the lengths of the alternatives
\* that match at position k, in the order the regex tries them.
month_alts(s, k) ==
    SelectSeq(<<IF At(s, k) = "1" /\ At(s, k + 1) \in {"0", "1", "2"}
                THEN 2 ELSE 0,
                IF At(s, k) = "0" /\ NonZeroDigit(At(s, k + 1))
                THEN 2 ELSE 0,
                IF NonZeroDigit(At(s, k)) THEN 1 ELSE 0>>, Positive)

\* %d is the regex 3[0-1]|[1-2]\d|0[1-9]|[1-9]| [1-9]
day_alts(s, k) ==
    SelectSeq(<<IF At(s, k) = "3" /\ At(s, k + 1) \in {"0", "1"}
                THEN 2 ELSE 0,
                IF At(s, k) \in {"1", "2"} /\ IsDigit(At(s, k + 1))
                THEN 2 ELSE 0,
                IF At(s, k) = "0" /\ NonZeroDigit(At(s, k + 1))
                THEN 2 ELSE 0,
                IF NonZeroDigit(At(s, k)) THEN 1 ELSE 0,
                IF At(s, k) = " " /\ NonZeroDigit(At(s, k + 1))
                THEN 2 ELSE 0>>, Positive)

\* The month lengths for which a day matches after the month.
HasDay(s, ms) == SelectSeq(ms, LAMBDA m : day_alts(s, 5 + m) # <<>>)

\* datetime.datetime.strptime(s, "%Y%m%d").date(): the regex
\* (\d\d\d\d)(%m)(%d) is matched at the start of s, taking the first
\* alternatives that let the whole pattern match; text left over, or a day
\* the month does not have, is a ValueError.
strptime_Ymd(s) ==
    LET bad == [err |-> "ValueError", val |-> None]
    IN  IF \E k \in 1..4 : ~IsDigit(At(s, k)) THEN bad
        ELSE LET ms == HasDay(s, month_alts(s, 5))
             IN  IF ms = <<>> THEN bad
                 ELSE LET m == ms[1]
                          d == day_alts(s, 5 + m)[1]
                          year == int(SubSeq(s, 1, 4))
                          month == int(SubSeq(s, 5, 4 + m))
                          day == int(lstrip(SubSeq(s, 5 + m, 4 + m + d),
                                            {" "}))
                      IN  IF \/ Len(s) # 4 + m + d
                             \/ year < 1
                             \/ day > days_in_month(year, month)
                          THEN bad
                          ELSE [err |-> "none",
                                val |-> toordinal(year, month, day) - Epoch]

(***************************************************************************)
(* The directory igram_path.  files.geolist and files.intlist are the      *)
(* lines of the two manifests (f.read().splitlines()), files.rsc is the    *)
(* content of dem.rsc and files.unw maps the name of a .unw file to the    *)
(* image sario.load_file returns for it: a 2-D array of FILE_LENGTH rows   *)
(* and WIDTH columns whose float32 values are small integers.              *)
(***************************************************************************)
MaxDim == 2      \* rows and columns of an image
MaxInts == 2     \* lines of the intlist of a stack
MaxPhase == 2    \* the distinct images a .unw file may hold

DotInt == <<".", "i", "n", "t">>
DotUnw == <<".", "u", "n", "w">>

\* os.path.join(dirname, name), for a name relative to the directory
path_join(dirname, name) == [dir |-> dirname, name |-> name]

StartsWith(s, old) ==
    Len(s) >= Len(old) /\ SubSeq(s, 1, Len(old)) = old

\* s.replace(old, new): every occurrence, left to right
RECURSIVE replace(_, _, _)
replace(s, old, new) ==
    IF s = <<>> THEN <<>>
    ELSE IF StartsWith(s, old)
         THEN new \o replace(SubSeq(s, Len(old) + 1, Len(s)), old, new)
         ELSE <<s[1]>> \o replace(Tail(s), old, new)

\* read_intlist: the lines are parsed one after the other, and the first
\* line that does not unpack into (master, slave) or whose token strptime
\* rejects ends the call with its ValueError.
intlist_tokens(fs) ==
    Tup([k \in 1..Len(fs.intlist) |->
            split(strip(fs.intlist[k], Range(DotInt)), "_")])

\* read_intlist whose file names (parse=False) come in the reverse of the
\* order of the lines.
read_intlist_paths_reversed(fs, parse) ==
    IF parse
    THEN LET toks == intlist_tokens(fs)
         IN  IF \E k \in 1..Len(toks) :
                    \/ Len(toks[k]) # 2
                    \/ \E t \in 1..2 : strptime_Ymd(toks[k][t]).err # "none"
             THEN [err |-> "ValueError", val |-> None]
             ELSE [err |-> "none",
                   val |-> Tup([k \in 1..Len(toks) |->
                                   <<strptime_Ymd(toks[k][1]).val,
                                     strptime_Ymd(toks[k][2]).val>>])]
    ELSE [err |-> "none",
          val |-> Tup([k \in 1..Len(fs.intlist) |->
                          path_join(fs.dirname,
                                    fs.intlist[Len(fs.intlist) + 1 - k])])]

\* read_intlist whose tuples hold the date of the second token first.
read_intlist_order_swapped(fs, parse) ==
    IF parse
    THEN LET toks == intlist_tokens(fs)
         IN  IF \E k \in 1..Len(toks) :
                    \/ Len(toks[k]) # 2
                    \/ \E t \in 1..2 : strptime_Ymd(toks[k][t]).err # "none"
             THEN [err |-> "ValueError", val |-> None]
             ELSE [err |-> "none",
                   val |-> Tup([k \in 1..Len(toks) |->
                                   <<strptime_Ymd(toks[k][2]).val,
                                     strptime_Ymd(toks[k][1]).val>>])]
    ELSE [err |-> "none",
          val |-> Tup([k \in 1..Len(fs.intlist) |->
                          path_join(fs.dirname, fs.intlist[k])])]

\* read_intlist(filepath, parse): the pairs of dates of the lines, or the
\* paths of the lines, in the order of the file.
read_intlist(fs, parse) ==
    IF parse
    THEN LET toks == intlist_tokens(fs)
         IN  IF \E k \in 1..Len(toks) :
                    \/ Len(toks[k]) # 2
                    \/ \E t \in 1..2 : strptime_Ymd(toks[k][t]).err # "none"
             THEN [err |-> "ValueError", val |-> None]
             ELSE [err |-> "none",
                   val |-> Tup([k \in 1..Len(toks) |->
                                   <<strptime_Ymd(toks[k][1]).val,
                                     strptime_Ymd(toks[k][2]).val>>])]
    ELSE [err |-> "none",
          val |-> Tup([k \in 1..Len(fs.intlist) |->
                          path_join(fs.dirname, fs.intlist[k])])]

\* sario.load_file(unw_file)
load_file(fs, path) == fs.unw[path.name]

\* numpy: the position an index i selects along an axis of length n, with
\* negative indices counted from the end; 0 stands for IndexError.
axis_pos(i, n) ==
    IF 0 <= i /\ i < n THEN i + 1
    ELSE IF -n <= i /\ i < 0 THEN n + i + 1
    ELSE 0

\* The subtraction done pixel by pixel in place, in row-major order: once
\* the reference pixel itself has become 0, the pixels after it keep their
\* raw values.
normalize_in_place(cur_unw, ref_row, ref_col) ==
    LET r == axis_pos(ref_row, Len(cur_unw))
        c == axis_pos(ref_col, Len(cur_unw[1]))
    IN  IF r = 0 \/ c = 0 THEN [err |-> "IndexError", val |-> None]
        ELSE [err |-> "none",
              val |-> Tup([i \in 1..Len(cur_unw) |->
                              Tup([j \in 1..Len(cur_unw[i]) |->
                                      IF i < r \/ (i = r /\ j <= c)
                                      THEN cur_unw[i][j] - cur_unw[r][c]
                                      ELSE cur_unw[i][j]])])]

\* The subtraction of the first pixel in place of the reference pixel.
normalize_first_pixel(cur_unw, ref_row, ref_col) ==
    LET r == axis_pos(ref_row, Len(cur_unw))
        c == axis_pos(ref_col, Len(cur_unw[1]))
    IN  IF r = 0 \/ c = 0 THEN [err |-> "IndexError", val |-> None]
        ELSE [err |-> "none",
              val |-> Tup([i \in 1..Len(cur_unw) |->
                              Tup([j \in 1..Len(cur_unw[i]) |->
                                      cur_unw[i][j] - cur_unw[1][1]])])]

\* cur_unw - cur_unw[ref_row, ref_col]
normalize(cur_unw, ref_row, ref_col) ==
    LET r == axis_pos(ref_row, Len(cur_unw))
        c == axis_pos(ref_col, Len(cur_unw[1]))
    IN  IF r = 0 \/ c = 0 THEN [err |-> "IndexError", val |-> None]
        ELSE [err |-> "none",
              val |-> Tup([i \in 1..Len(cur_unw) |->
                              Tup([j \in 1..Len(cur_unw[i]) |->
                                      cur_unw[i][j] - cur_unw[r][c]])])]

\* The loop of read_unw_stack from layer idx on: the layers it stores, or
\* the IndexError of the first layer that has no reference pixel together
\* with the record logged before it is raised again.
RECURSIVE unw_layers(_, _, _, _, _, _)
unw_layers(fs, igram_files, idx, ref_row, ref_col, shape) ==
    IF idx > Len(igram_files) THEN [err |-> "none", val |-> <<>>, log |-> <<>>]
    ELSE LET unw_file == [igram_files[idx] EXCEPT
                             !.name = replace(@, DotInt, DotUnw)]
             cur == normalize(load_file(fs, unw_file), ref_row, ref_col)
         IN  IF cur.err # "none"
             THEN [err |-> cur.err, val |-> None,
                   log |-> <<[level |-> "error",
                              pixel |-> <<ref_row, ref_col>>,
                              shape |-> shape]>>]
             ELSE LET rest == unw_layers(fs, igram_files, idx + 1,
                                         ref_row, ref_col, shape)
                  IN  IF rest.err # "none" THEN rest
                      ELSE [rest EXCEPT !.val = <<cur.val>> \o @]

\* read_unw_stack(igram_path, ref_row, ref_col): the stack is a 3-D array,
\* a[r][c][k] being pixel (r, c) of layer k.
read_unw_stack(fs, ref_row, ref_col) ==
    LET igram_files == read_intlist(fs, FALSE).val
        num_ints == Len(igram_files)
        rows == fs.rsc.FILE_LENGTH
        cols == fs.rsc.WIDTH
        got == unw_layers(fs, igram_files, 1, ref_row, ref_col,
                          <<rows, cols>>)
    IN  IF got.err # "none" THEN got
        ELSE [got EXCEPT !.val =
                 [shape |-> <<rows, cols, num_ints>>,
                  a |-> Tup([r \in 1..rows |->
                            Tup([c \in 1..cols |->
                                Tup([k \in 1..num_ints |->
                                        got.val[k][r][c]])])])]]

\* stack[r, c, k] for 0-based indices inside the stack
Pixel(stack, r, c, k) ==
    stack.a[axis_pos(r, stack.shape[1])][axis_pos(c, stack.shape[2])][k + 1]

\* ---- the explored directories of read_unw_stack ----
\* The name of the interferogram of 2018-04-e and 2018-04-l.
DecimalStr(n, w) == Tup([k \in 1..w |-> Digit[((n \div (10 ^ (w - k))) % 10) + 1]])

IntName(e, l) ==
    DecimalStr(20180400 + e, 8) \o <<"_">> \o DecimalStr(20180400 + l, 8)
        \o DotInt

\* An image whose pixels all differ: pixel (r, c) is s * (cols * r + c + 1) - 2.
ImageOf(rows, cols, s) ==
    Tup([r \in 1..rows |->
            Tup([c \in 1..cols |-> s * (cols * (r - 1) + c) - 2])])

StackNames(n) == Tup([k \in 1..n |-> IntName(k, k + 1)])

\* The directories of n interferograms of rows x cols pixels: the images
\* of the lines take the MaxPhase seeds in turn, from seed c on.
StackDirsOf(n, rows, cols) ==
    { [dirname |-> "igram_path",
       geolist |-> <<>>,
       intlist |-> StackNames(n),
       rsc |-> [FILE_LENGTH |-> rows, WIDTH |-> cols],
       unw |-> [nm \in {replace(StackNames(n)[k], DotInt, DotUnw) :
                            k \in 1..n} |->
                   LET k == CHOOSE k \in 1..n :
                                replace(StackNames(n)[k], DotInt, DotUnw) = nm
                   IN  ImageOf(rows, cols, ((c + k - 2) % MaxPhase) + 1)]]
      : c \in 1..MaxPhase }

StackDirs(maxints, maxdim) ==
    UNION {StackDirsOf(n, rows, cols) :
              n \in 0..maxints, rows \in 1..maxdim, cols \in 1..maxdim}

RefRange == (0 - MaxDim - 1)..(MaxDim + 1)

NoMatrices ==
    /\ geolist = None
    /\ intlist = None
    /\ Unbound

InitStack ==
    /\ files \in StackDirs(MaxInts, MaxDim)
    /\ reference \in RefRange \X RefRange
    /\ unw_stack = None
    /\ returned = None
    /\ log = <<>>
    /\ NoMatrices

\* timeseries.read_unw_stack(igram_path, ref_row, ref_col)
CallReadUnwStack ==
    /\ pc = "start"
    /\ \E r \in {read_unw_stack(files, reference[1], reference[2])} :
          /\ unw_stack' = r.val
          /\ err' = r.err
          /\ log' = log \o r.log
    /\ pc' = "read_unw_stack"
    /\ UNCHANGED <<geolist, intlist, timediffs, A, B, delta_phis,
                   velocity_array, phi_arr, solves, files, reference,
                   returned, heap>>

NextStack == CallReadUnwStack

SpecStack == InitStack /\ [][NextStack]_vars

\* ---- vocabulary of the claims about read_unw_stack ----
StackReturned == pc = "read_unw_stack" /\ err = "none"

Rows == files.rsc.FILE_LENGTH

Cols == files.rsc.WIDTH

NumInts == Len(files.intlist)

InImage == reference[1] \in 0..(Rows - 1) /\ reference[2] \in 0..(Cols - 1)

\* C11: after read_unw_stack has returned, every layer k of the stack holds 0
\* at the reference pixel: stack[ref_row, ref_col, k] = 0.
C11_ReferenceIsZero ==
    StackReturned =>
        \A k \in 0..(NumInts - 1) :
            Pixel(unw_stack, reference[1], reference[2], k) = 0

\* A stack of two layers has been returned whose raw images are non-zero at
\* the reference pixel (0-based (1, 1)) and differ there.
C11_Witness ==
    /\ StackReturned
    /\ NumInts = 2
    /\ reference = <<1, 1>>
    /\ \A k \in 1..2 :
          load_file(files, path_join("igram_path",
                       replace(files.intlist[k], DotInt, DotUnw)))[2][2] # 0
    /\ unw_stack.a[1][1][1] # 0
    /\ unw_stack.a[2][2] = <<0, 0>>

\* C12: whenever the reference pixel lies outside the image (ref_row not in
\* 0..rows-1 or ref_col not in 0..cols-1), read_unw_stack ends with an
\* IndexError, has logged the pixel and the spatial shape of the stack, and
\* returns no stack.
C12_OutOfImageFails ==
    (pc = "read_unw_stack" /\ ~InImage) =>
        /\ err = "IndexError"
        /\ unw_stack = None
        /\ \E k \in 1..Len(log) :
              /\ log[k].pixel = reference
              /\ log[k].shape = <<Rows, Cols>>

(***************************************************************************)
(* The manifests.  A line of the geolist is the name of a Sentinel-1       *)
(* product; of that name the model keeps the directory, the mission and    *)
(* the start time <<day, time>>, <<>> for a name that holds no start       *)
(* time.                                                                   *)
(***************************************************************************)
MaxGeoLines == 3    \* lines of a geolist
MaxIntLines == 2    \* lines of an intlist that is parsed

\* os.path.split(geoname)[1]
basename(geoname) == [geoname EXCEPT !.dir = ""]

\* Sentinel(geo).start_time().date()
start_date(geo) ==
    IF geo.start = <<>> THEN [err |-> "ValueError", val |-> None]
    ELSE [err |-> "none", val |-> geo.start[1]]

\* Insert x before the first element greater than x.
RECURSIVE insort(_, _)
insort(l, x) ==
    IF l = <<>> THEN <<x>>
    ELSE IF x < l[1] THEN <<x>> \o l
    ELSE <<l[1]>> \o insort(Tail(l), x)

RECURSIVE sorted_descending(_)
sorted_descending(l) ==
    IF l = <<>> THEN <<>>
    ELSE LET r == sorted_descending(SubSeq(l, 1, Len(l) - 1))
             x == l[Len(l)]
         IN  IF r = <<>> \/ x >= r[1] THEN <<x>> \o r
             ELSE <<r[1]>> \o sorted_descending(Tail(r) \o <<x>>)

\* sorted(l), ascending
RECURSIVE sorted(_)
sorted(l) ==
    IF l = <<>> THEN <<>>
    ELSE insort(sorted(SubSeq(l, 1, Len(l) - 1)), l[Len(l)])

\* read_geolist(filepath)
read_geolist(fs) ==
    LET names == Tup([k \in 1..Len(fs.geolist) |-> basename(fs.geolist[k])])
    IN  IF \E k \in 1..Len(names) : start_date(names[k]).err # "none"
        THEN [err |-> "ValueError", val |-> None]
        ELSE [err |-> "none",
              val |-> sorted(Tup([k \in 1..Len(names) |->
                                     start_date(names[k]).val]))]

\* ---- the explored manifests ----
GeoNames ==
    {[dir |-> "igram_path", mission |-> m, start |-> <<d, 1>>] :
        m \in {"S1A", "S1B"}, d \in Days}
    \cup {[dir |-> "igram_path", mission |-> "S1A", start |-> <<>>]}

\* The YYYYMMDD token of day d of April or May 2018.
DateToken(d) ==
    DecimalStr(IF d <= 30 THEN 20180400 + d ELSE 20180500 + (d - 30), 8)

PairName(e, l) == DateToken(e) \o <<"_">> \o DateToken(l) \o DotInt

\* Lines that are not <YYYYMMDD>_<YYYYMMDD>.int: a 7-digit token, a letter
\* in a token, a day April does not have, one token, three tokens, two
\* underscores, a 9-digit token, another extension, characters of ".int"
\* before the stem, no extension, an empty line.
OddLines ==
    { DecimalStr(2018042, 7) \o <<"_">> \o DateToken(3) \o DotInt,
      DateToken(1) \o <<"_">> \o <<"2", "0", "1", "8", "0", "4", "0", "x">>
          \o DotInt,
      DateToken(1) \o <<"_">> \o DecimalStr(20180431, 8) \o DotInt,
      DateToken(1) \o DotInt,
      DateToken(1) \o <<"_">> \o DateToken(2) \o <<"_">> \o DateToken(3)
          \o DotInt,
      DateToken(1) \o <<"_", "_">> \o DateToken(2) \o DotInt,
      DateToken(1) \o <<"_">> \o DecimalStr(201804022, 9) \o DotInt,
      DateToken(1) \o <<"_">> \o DateToken(2) \o DotUnw,
      <<"i", "n", "t">> \o DateToken(1) \o <<"_">> \o DateToken(2) \o DotInt,
      DateToken(1) \o <<"_">> \o DateToken(2),
      <<>> }

\* The lines tried: the pairs of days early < late, the pair of days 2 and
\* 1, and the odd lines.
IntLines ==
    {PairName(pair[1], pair[2]) :
        pair \in {q \in Days \X Days : q[1] < q[2]} \cup {<<2, 1>>}}
    \cup OddLines

TestLines ==
    Tup([k \in 1..Len(TestIntlist) |->
            PairName(TestIntlist[k][1], TestIntlist[k][2])])

Manifests(geonames, intnames) ==
    [dirname |-> "igram_path", geolist |-> geonames, intlist |-> intnames,
     rsc |-> [FILE_LENGTH |-> 1, WIDTH |-> 1], unw |-> <<>>]

ReadDirs(maxgeo, maxint) ==
    {Manifests(g, <<>>) :
        g \in UNION {[1..n -> GeoNames] : n \in 1..maxgeo}}
    \cup {Manifests(<<>>, i) :
        i \in UNION {[1..n -> IntLines] : n \in 1..maxint}}
    \cup {Manifests(<<>>, TestLines)}

InitRead ==
    /\ files \in ReadDirs(MaxGeoLines, MaxIntLines)
    /\ reference = None
    /\ unw_stack = None
    /\ returned = None
    /\ log = <<>>
    /\ NoMatrices

\* timeseries.read_geolist(filepath)
CallReadGeolist ==
    /\ pc = "start"
    /\ files.geolist # <<>>
    /\ \E r \in {read_geolist(files)} :
          geolist' = r.val /\ err' = r.err
    /\ pc' = "read_geolist"
    /\ UNCHANGED <<intlist, timediffs, A, B, delta_phis, velocity_array,
                   phi_arr, solves, ioVars, heap>>

\* timeseries.read_intlist(filepath, parse=True)
CallReadIntlist ==
    /\ pc = "start"
    /\ files.intlist # <<>>
    /\ \E r \in {read_intlist(files, TRUE)} :
          intlist' = r.val /\ err' = r.err
    /\ pc' = "read_intlist"
    /\ UNCHANGED <<geolist, timediffs, A, B, delta_phis, velocity_array,
                   phi_arr, solves, ioVars, heap>>

NextRead == CallReadGeolist \/ CallReadIntlist

SpecRead == InitRead /\ [][NextRead]_vars

\* ---- vocabulary of the claims about the manifests ----
GeolistReturned == pc = "read_geolist" /\ err = "none"

\* The number of lines of the geolist whose product starts on day d.
LinesOfDay(d) ==
    Cardinality({k \in 1..Len(files.geolist) : files.geolist[k].start[1] = d})

\* C13: the dates read_geolist returns hold no date twice, whatever the
\* manifest lists.
C13_GeolistUnique ==
    GeolistReturned =>
        \A i, j \in 1..Len(geolist) : i # j => geolist[i] # geolist[j]

\* C14: read_geolist returns the dates of the manifest's lines, each as often
\* as the manifest lists it, in ascending order, whatever the order of the
\* lines.
C14_GeolistAscending ==
    GeolistReturned =>
        /\ \A i, j \in 1..Len(geolist) : i < j => geolist[i] <= geolist[j]
        /\ Len(geolist) = Len(files.geolist)
        /\ \A d \in Range(geolist) : CountOf(geolist, d) = LinesOfDay(d)

\* A manifest of three lines in descending order of their dates has been
\* read.
C14_Witness ==
    /\ GeolistReturned
    /\ Len(files.geolist) = 3
    /\ files.geolist[1].start[1] > files.geolist[2].start[1]
    /\ files.geolist[2].start[1] > files.geolist[3].start[1]
    /\ geolist[1] < geolist[3]

IntlistReturned == pc = "read_intlist" /\ err = "none"

\* The YYYYMMDD tokens of the days of April and May 2018, by day.
TokenTable == Tup([d \in 1..61 |-> DateToken(d)])

IsDateToken(tok) == \E d \in 1..61 : TokenTable[d] = tok

DayOfToken(tok) == CHOOSE d \in 1..61 : TokenTable[d] = tok

\* The line is <YYYYMMDD>_<YYYYMMDD>.int for two days of April or May 2018.
IsPairLine(line) ==
    /\ Len(line) = 21
    /\ line[9] = "_"
    /\ SubSeq(line, 18, 21) = DotInt
    /\ IsDateToken(SubSeq(line, 1, 8))
    /\ IsDateToken(SubSeq(line, 10, 17))

\* C15: from a manifest of lines <YYYYMMDD>_<YYYYMMDD>.int, read_intlist with
\* parse=True returns one tuple per line, in the order of the lines, line k
\* giving (date of its first token, date of its second token).
C15_IntlistInFileOrder ==
    (pc = "read_intlist"
        /\ \A k \in 1..Len(files.intlist) : IsPairLine(files.intlist[k])) =>
        /\ err = "none"
        /\ Len(intlist) = Len(files.intlist)
        /\ \A k \in 1..Len(files.intlist) :
              intlist[k] = <<DayOfToken(SubSeq(files.intlist[k], 1, 8)),
                             DayOfToken(SubSeq(files.intlist[k], 10, 17))>>

\* A manifest whose first line is later than its second, and whose first
\* line holds the later date first, has been read; and so has a manifest
\* of two equal lines.
C15_Witness ==
    /\ IntlistReturned
    /\ Len(intlist) = 2
    /\ \/ intlist[1][1] > intlist[2][1] /\ intlist[1][1] > intlist[1][2]
       \/ intlist[1] = intlist[2] /\ intlist[1][1] < intlist[1][2]
    /\ \A k \in 1..2 : IsPairLine(files.intlist[k])

\* The stem of a file name: the name without its extension.
Stem(line) ==
    IF Len(line) >= 4 /\ SubSeq(line, Len(line) - 3, Len(line)) \in {DotInt, DotUnw}
    THEN SubSeq(line, 1, Len(line) - 4)
    ELSE line

\* Two tokens of 8 digits joined by one underscore.
TwoTokens(stem) ==
    /\ Len(stem) = 17
    /\ stem[9] = "_"
    /\ \A k \in (1..17) \ {9} : IsDigit(stem[k])

\* C16: whenever a line of the manifest has a stem that is not two 8-digit
\* tokens joined by one underscore, read_intlist with parse=True ends with
\* the parse error and returns no list.
C16_MalformedLineFails ==
    (pc = "read_intlist"
        /\ \E k \in 1..Len(files.intlist) :
              ~TwoTokens(Stem(files.intlist[k]))) =>
        /\ err = "ValueError"
        /\ intlist = None

(***************************************************************************)
(* run_inversion.  The deformation is the phase times PHASE_TO_CM, which   *)
(* is SENTINEL_WAVELENGTH / (-4 * pi).  A real number of the form          *)
(* q * SENTINEL_WAVELENGTH^w * pi^p, q rational, is the record             *)
(* [q, w, p]; its sign is the sign of q.                                   *)
(***************************************************************************)
SENTINEL_WAVELENGTH == Rat(55465763, 10000000)

PHASE_TO_CM_unsigned == [q |-> Rat(1, 4), w |-> 1, p |-> -1]

PHASE_TO_CM == [q |-> Rat(-1, 4), w |-> 1, p |-> -1]

\* c * m for a number c of that form and a 2-D array m of rationals
times(c, m) ==
    Tup([i \in 1..Len(m) |->
        Tup([k \in 1..Len(m[i]) |->
                [q |-> RMul(c.q, m[i][k]), w |-> c.w, p |-> c.p]])])

\* ndarray.T of a 3-D array: the axes in reverse order, so that
\* x.T[k, c, r] is x[r, c, k].
ndarray_T(x) ==
    [shape |-> <<x.shape[3], x.shape[2], x.shape[1]>>,
     a |-> Tup([k \in 1..x.shape[3] |->
              Tup([c \in 1..x.shape[2] |->
                  Tup([r \in 1..x.shape[1] |-> x.a[r][c][k]])])])]

\* The element of a 3-D array at the 0-based position f of its C order,
\* in which the last index runs fastest.
flat(x, f) ==
    x.a[(f \div (x.shape[2] * x.shape[3])) + 1]
       [((f \div x.shape[3]) % x.shape[2]) + 1]
       [(f % x.shape[3]) + 1]

\* ndarray.reshape((n, -1)) of a 3-D array: n rows filled in C order.  The
\* length of the rows is size / n; numpy raises ValueError when n is 0 or
\* does not divide the size.
reshape(x, n) ==
    LET size == x.shape[1] * x.shape[2] * x.shape[3]
    IN  IF n = 0 \/ size % n # 0
        THEN [err |-> "ValueError", val |-> None]
        ELSE [err |-> "none",
              val |-> Tup([i \in 1..n |->
                         Tup([j \in 1..(size \div n) |->
                                 flat(x, (i - 1) * (size \div n) + j - 1)])])]

\* _prep_columns(stacked): the assertion on the number of axes, then
\* stacked.T.reshape((num_stacks, -1)).
prep_columns(stacked) ==
    IF Len(stacked.shape) # 3
    THEN [err |-> "AssertionError", val |-> None]
    ELSE LET num_stacks == stacked.shape[3]
         IN  reshape(ndarray_T(stacked), num_stacks)

\* The locals of run_inversion before its first statement.
NoLocals ==
    [err |-> "none", intlist |-> None, geolist |-> None, unw_stack |-> None,
     B |-> None, timediffs |-> None, phi_columns |-> NoArray, varr |-> None,
     phi_arr |-> None, solves |-> 0, log |-> <<>>, returned |-> None]

\* The statements of run_inversion, each taking the locals s left by the
\* statements before it; after an exception nothing more is done.
run_read_intlist(fs, s) ==
    LET r == read_intlist(fs, TRUE)
    IN  [s EXCEPT !.err = r.err, !.intlist = r.val]

run_read_geolist(fs, s) ==
    IF s.err # "none" THEN s
    ELSE LET r == read_geolist(fs)
         IN  [s EXCEPT !.err = r.err, !.geolist = r.val]

run_read_unw_stack(fs, ref, s) ==
    IF s.err # "none" THEN s
    ELSE LET r == read_unw_stack(fs, ref[1], ref[2])
         IN  [s EXCEPT !.err = r.err, !.unw_stack = r.val, !.log = r.log]

run_build_B_matrix(s) ==
    IF s.err # "none" THEN s
    ELSE LET r == build_B_matrix(s.geolist, s.intlist)
         IN  [s EXCEPT !.err = r.err, !.B = r.val]

\* run_prepare with the time diffs taken of geolist[1:], the dates that
\* build_A_matrix gives columns to.
run_prepare_diffs_of_columns(s) ==
    IF s.err # "none" THEN s
    ELSE LET r == prep_columns(s.unw_stack)
         IN  [s EXCEPT !.timediffs = find_time_diffs(DropFirst(s.geolist)),
                       !.err = r.err,
                       !.phi_columns = IF r.err = "none" THEN Arr2(r.val)
                                       ELSE NoArray]

run_prepare(s) ==
    IF s.err # "none" THEN s
    ELSE LET r == prep_columns(s.unw_stack)
         IN  [s EXCEPT !.timediffs = find_time_diffs(s.geolist),
                       !.err = r.err,
                       !.phi_columns = IF r.err = "none" THEN Arr2(r.val)
                                       ELSE NoArray]

run_invert_sbas(s) ==
    IF s.err # "none" THEN s
    ELSE LET r == invert_sbas(s.phi_columns, s.timediffs, s.B)
         IN  [s EXCEPT !.err = r.err, !.varr = r.velocity,
                       !.phi_arr = r.phi, !.solves = r.solves]

run_return(s) ==
    IF s.err # "none" THEN s
    ELSE [s EXCEPT !.returned =
             [geolist |-> s.geolist,
              phi_arr |-> Arr2(s.phi_arr),
              deformation |-> Arr2(times(PHASE_TO_CM, s.phi_arr)),
              varr |-> Arr2(s.varr)]]

\* run_inversion(igram_path, reference): the statements in order, the first
\* exception ending the call.
run_inversion(fs, ref) ==
    run_return(run_invert_sbas(run_prepare(run_build_B_matrix(
        run_read_unw_stack(fs, ref,
            run_read_geolist(fs, run_read_intlist(fs, NoLocals)))))))

\* ---- the explored directories of run_inversion ----
\* The pairs early < late of the days, in lexicographic order.
AllPairs ==
    SelectSeq([k \in 1..(MaxDay * MaxDay) |->
                  <<((k - 1) \div MaxDay) + 1, ((k - 1) % MaxDay) + 1>>],
              LAMBDA pair : pair[1] < pair[2])

\* m pairs that follow each other in AllPairs, from pair s on.
PairWindow(s, m) ==
    Tup([k \in 1..m |-> AllPairs[((s + k - 2) % Len(AllPairs)) + 1]])

\* The date lists of the geolists: the valid ones, and two that hold a date
\* twice.
RunDates == ValidGeoInputs \cup {<<1, 1, 2>>, <<1, 2, 2>>}

\* A geolist manifest of the dates D, latest first.
GeoLinesOf(D) ==
    Tup([k \in 1..Len(D) |->
            [dir |-> "igram_path", mission |-> "S1A",
             start |-> <<D[Len(D) + 1 - k], 1>>]])

RunDir(D, P, rows, cols) ==
    [dirname |-> "igram_path",
     geolist |-> GeoLinesOf(D),
     intlist |-> Tup([k \in 1..Len(P) |-> PairName(P[k][1], P[k][2])]),
     rsc |-> [FILE_LENGTH |-> rows, WIDTH |-> cols],
     unw |-> [nm \in {replace(PairName(P[k][1], P[k][2]), DotInt, DotUnw) :
                          k \in 1..Len(P)} |->
                 LET k == CHOOSE k \in 1..Len(P) :
                              replace(PairName(P[k][1], P[k][2]),
                                      DotInt, DotUnw) = nm
                 IN  ImageOf(rows, cols,
                             1 + ((P[k][1] + P[k][2]) % MaxPhase))]]

RunDirs(maxpairs, maxdim) ==
    {RunDir(D, PairWindow(s, m), rows, cols) :
        D \in RunDates, s \in 1..MaxDay, m \in 0..maxpairs,
        rows \in 1..maxdim, cols \in 1..maxdim}
    \cup {RunDir(TestGeolist, TestIntlist, 1, 1)}

InitRun ==
    /\ files \in RunDirs(MaxPairs, MaxDim)
    /\ reference \in {<<0, 0>>, <<0, files.rsc.WIDTH - 1>>, <<MaxDim, 0>>}
    /\ unw_stack = None
    /\ returned = None
    /\ log = <<>>
    /\ NoMatrices

\* timeseries.run_inversion(igram_path, reference)
CallRunInversion ==
    /\ pc = "start"
    /\ \E r \in {run_inversion(files, reference)} :
          /\ intlist' = r.intlist
          /\ geolist' = r.geolist
          /\ unw_stack' = r.unw_stack
          /\ B' = r.B
          /\ timediffs' = r.timediffs
          /\ delta_phis' = r.phi_columns
          /\ velocity_array' = r.varr
          /\ phi_arr' = r.phi_arr
          /\ solves' = solves + r.solves
          /\ log' = log \o r.log
          /\ returned' = r.returned
          /\ err' = r.err
    /\ pc' = "run_inversion"
    /\ UNCHANGED <<A, files, reference, heap>>

NextRun == CallRunInversion

SpecRun == InitRun /\ [][NextRun]_vars

\* ---- vocabulary of the claims about run_inversion ----
RunReturned == pc = "run_inversion" /\ err = "none"

RSign(x) == IF x[1] * x[2] > 0 THEN 1 ELSE IF x[1] = 0 THEN 0 ELSE -1

\* C17: the deformation run_inversion returns is the returned phase times
\* SENTINEL_WAVELENGTH / (-4 * pi), the wavelength being 5.5465763 and the
\* factor applied once: every entry is -1/4 of the phase entry times
\* wavelength / pi, it is 0 where the phase is 0, as in the row of time 0,
\* and of the opposite sign elsewhere.
C17_DeformationIsScaledPhase ==
    RunReturned =>
        /\ SENTINEL_WAVELENGTH = <<55465763, 10000000>>
        /\ Len(returned.deformation.a) = Len(returned.phi_arr.a)
        /\ \A i \in 1..Len(returned.phi_arr.a) :
              /\ Len(returned.deformation.a[i]) = Len(returned.phi_arr.a[i])
              /\ \A k \in 1..Len(returned.phi_arr.a[i]) :
                    LET x == returned.phi_arr.a[i][k]
                        d == returned.deformation.a[i][k]
                    IN  /\ d.w = 1 /\ d.p = -1
                        /\ RScale(-4, d.q) = x
                        /\ RSign(d.q) = 0 - RSign(x)
                        /\ i = 1 => RSign(d.q) = 0

\* An inversion has returned a phase with a positive and a negative entry.
C17_Witness ==
    /\ RunReturned
    /\ \E i \in 2..Len(returned.phi_arr.a) :
       \E k, h \in 1..Len(returned.phi_arr.a[i]) :
          /\ RSign(returned.phi_arr.a[i][k]) = 1
          /\ RSign(returned.deformation.a[i][k].q) = -1
          /\ RSign(returned.phi_arr.a[i][h]) = -1
          /\ RSign(returned.deformation.a[i][h].q) = 1

\* The array is 3-D: n images of rows x cols pixels.
IsImageSeries(out, n, rows, cols) ==
    /\ out.ndim = 3
    /\ Len(out.a) = n
    /\ \A t \in 1..n :
          /\ Len(out.a[t]) = rows
          /\ \A r \in 1..rows : Len(out.a[t][r]) = cols

\* C18: when run_inversion has inverted a grid of rows x cols pixels, the
\* phase and the deformation it returns are 3-D arrays of N images of
\* rows x cols pixels.
C18_OutputsAreImages ==
    RunReturned =>
        /\ IsImageSeries(returned.phi_arr, Len(returned.geolist), Rows, Cols)
        /\ IsImageSeries(returned.deformation, Len(returned.geolist),
                         Rows, Cols)

(***************************************************************************)
(* The integration of invert_sbas on its own: from a 2-D velocity array    *)
(* and the time diffs to the phases.                                       *)
(***************************************************************************)
\* The phases summed from the velocities themselves, the time diffs left
\* out.
integrate_unweighted(td, velocity) == insert_zero_row(cumsum(velocity))

\* phi_arr of invert_sbas for a velocity array: the time diffs times the
\* velocities, summed along time, after a row of zeros
integrate(td, velocity) ==
    insert_zero_row(cumsum(phi_diffs_of(td, velocity)))

\* The velocity columns tried, for n time diffs: halves, negative
\* integers, thirds and zeros.
VelocityCols(n) ==
    <<Tup([j \in 1..n |-> Rat(1, 2)]),
      Tup([j \in 1..n |-> RInt(0 - j)]),
      Tup([j \in 1..n |-> Rat(j, 3)]),
      Tup([j \in 1..n |-> RInt(0)])>>

\* The velocity arrays tried: K columns that follow each other in
\* VelocityCols.
VelocityArgs(n) ==
    {Tup([j \in 1..n |->
             Tup([k \in 1..K |-> VelocityCols(n)[((c + k - 2) % 4) + 1][j]])]) :
        c \in 1..4, K \in 1..MaxPix}

InitPhase ==
    /\ \E n \in 1..(MaxDates - 1) :
          /\ timediffs \in [1..n -> Days]
          /\ velocity_array \in VelocityArgs(n)
    /\ geolist = None
    /\ intlist = None
    /\ A = None
    /\ B = None
    /\ delta_phis = NoArray
    /\ phi_arr = None
    /\ solves = 0
    /\ err = "none"
    /\ pc = "start"
    /\ heap = <<>>
    /\ NoIO

\* invert_sbas from "Now integrate to get back to phases" on
CallIntegrate ==
    /\ pc = "start"
    /\ phi_arr' = integrate(timediffs, velocity_array)
    /\ pc' = "integrate"
    /\ UNCHANGED <<geolist, intlist, timediffs, A, B, delta_phis,
                   velocity_array, solves, err, ioVars, heap>>

NextPhase == CallIntegrate

SpecPhase == InitPhase /\ [][NextPhase]_vars

\* (x - y) / n for rationals x, y and an integer n > 0
RDiffOver(x, y, n) == Rat(x[1] * y[2] - y[1] * x[2], x[2] * y[2] * n)

\* C19: for every velocity array and all positive time diffs, the phases
\* [0, cumsum(timediffs * v)] give the velocities back: the difference of
\* consecutive phases divided by the time diff between them is v.
C19_VelocityRoundTrip ==
    pc = "integrate" =>
        /\ Len(phi_arr) = Len(timediffs) + 1
        /\ \A i \in 1..Len(timediffs) :
           \A k \in 1..Len(velocity_array[i]) :
              RDiffOver(phi_arr[i + 1][k], phi_arr[i][k], timediffs[i])
                  = velocity_array[i][k]

\* Two columns have been integrated over two unequal time diffs greater
\* than one day, one velocity not being an integer.
C19_Witness ==
    /\ pc = "integrate"
    /\ Len(timediffs) = 2
    /\ timediffs[1] > 1 /\ timediffs[2] > timediffs[1]
    /\ Len(velocity_array[1]) = 2
    /\ velocity_array[1][1][2] # 1
    /\ phi_arr[3][1] # phi_arr[2][1]

(***************************************************************************)
(* Further claims about the builders and invert_sbas.                      *)
(***************************************************************************)
\* The smallest network: two dates and the one pair of them.
TwoDatesOnePair ==
    /\ Len(geolist) = 2
    /\ intlist = <<<<geolist[1], geolist[2]>>>>

\* C21: for two dates and the single pair (D[0], D[1]), build_A_matrix
\* returns [[1]], build_B_matrix returns [[D[1] - D[0]]], and invert_sbas
\* returns, for every pixel, the velocity delta_phi / (D[1] - D[0]) and the
\* phase [0, delta_phi].
C21_TwoDatesOnePair ==
    (pc = "invert_sbas" /\ TwoDatesOnePair) =>
        /\ build_A_matrix(geolist, intlist).err = "none"
        /\ build_A_matrix(geolist, intlist).val = <<<<1>>>>
        /\ B = <<<<geolist[2] - geolist[1]>>>>
        /\ err = "none" =>
              /\ Len(velocity_array) = 1
              /\ Len(phi_arr) = 2
              /\ \A k \in 1..NumPix(delta_phis) :
                    LET delta_phi == PixCol(delta_phis, k)[1]
                    IN  /\ velocity_array[1][k]
                              = Rat(delta_phi, geolist[2] - geolist[1])
                        /\ phi_arr[1][k] = RInt(0)
                        /\ phi_arr[2][k] = RInt(delta_phi)

\* Two pixels of the smallest network have been inverted over three days,
\* one velocity not being an integer.
C21_Witness ==
    /\ InvertReturned
    /\ TwoDatesOnePair
    /\ geolist[2] - geolist[1] = 3
    /\ NumPix(delta_phis) = 2
    /\ \E k \in 1..2 : velocity_array[1][k][2] = 3
    /\ phi_arr[2] # phi_arr[1]

\* The pairs whose early date is not in dates[1:].
EarlyMissing(j) == intlist[j][1] \notin Range(DropFirst(geolist))

\* C22: when every late date is in dates[1:], build_A_matrix raises no error
\* whatever the early dates are, and a row whose early date is not found in
\* dates[1:] holds no -1 and holds its +1 at the column of the late date,
\* every other entry being 0.
C22_EarlyMissIsNotAnError ==
    (/\ pc = "build_A_matrix"
     /\ \A j \in 1..Len(intlist) : intlist[j][2] \in Range(DropFirst(geolist)))
    => /\ err = "none"
       /\ Len(A) = Len(intlist)
       /\ \A j \in 1..Len(intlist) :
            EarlyMissing(j) =>
                /\ CountOf(A[j], -1) = 0
                /\ CountOf(A[j], 1) = 1
                /\ A[j][index(DropFirst(geolist), intlist[j][2]) + 1] = 1
                /\ CountOf(A[j], 0) = Len(geolist) - 2

\* A returned matrix with a row whose early date is the reference date and a
\* row whose early date is in no place of the date list.
C22_Witness ==
    /\ pc = "build_A_matrix" /\ err = "none"
    /\ Len(geolist) = 3
    /\ \E j \in 1..Len(intlist) :
        /\ intlist[j][1] = geolist[1] /\ EarlyMissing(j)
        /\ A[j] = <<0, 1>>
    /\ \E j \in 1..Len(intlist) :
        /\ intlist[j][1] \notin Range(geolist)
        /\ CountOf(A[j], 1) = 1 /\ CountOf(A[j], -1) = 0

\* C23: whenever invert_sbas returns, in every pixel column k and for every
\* i in 1..N-1, phase[i] = phase[i-1] + timediffs[i-1] * velocity[i-1], and
\* phase[i] is the sum over j < i of timediffs[j] * velocity[j]; the time
\* diffs are those of the call, the same for every pixel column.
C23_PhaseIncrements ==
    InvertReturned =>
        \A k \in 1..NumPix(delta_phis) :
        \A i \in 1..Len(timediffs) :
            /\ phi_arr[i + 1][k]
                  = RAdd(phi_arr[i][k], RScale(timediffs[i], velocity_array[i][k]))
            /\ phi_arr[i + 1][k]
                  = RSum([j \in 1..i |-> RScale(timediffs[j], velocity_array[j][k])])

\* Two pixel columns over two unequal time diffs, with velocities that are
\* not zero in the second interval and differ between the columns.
C23_Witness ==
    /\ InvertReturned
    /\ NumPix(delta_phis) = 2
    /\ Len(timediffs) = 2
    /\ timediffs[1] # timediffs[2]
    /\ velocity_array[2][1] # RInt(0)
    /\ velocity_array[2][2] # RInt(0)
    /\ velocity_array[2][1] # velocity_array[2][2]
    /\ phi_arr[3][1] # phi_arr[2][1]

\* C24: when invert_sbas returns on an M x K table, column k of its velocity
\* and phase arrays is what invert_sbas returns on column k alone, given as a
\* vector of length M or as an M x 1 table, with the same time diffs and B.
C24_BatchedIsPerPixel ==
    (InvertReturned /\ delta_phis.ndim = 2) =>
        \A k \in 1..NumPix(delta_phis) :
        \A alone \in {Arr1(Col(delta_phis.a, k)),
                      Arr2(expand_dims(Col(delta_phis.a, k)))} :
        \A r \in {invert_sbas(alone, timediffs, B)} :
            /\ r.err = "none"
            /\ Len(r.velocity[1]) = 1
            /\ Col(velocity_array, k) = Col(r.velocity, 1)
            /\ Col(phi_arr, k) = Col(r.phi, 1)

\* A table of two different pixel columns was inverted over two time diffs
\* and its two columns of velocities and of phases differ.
C24_Witness ==
    /\ InvertReturned
    /\ delta_phis.ndim = 2
    /\ NumPix(delta_phis) = 2
    /\ Col(delta_phis.a, 1) # Col(delta_phis.a, 2)
    /\ Len(timediffs) = 2
    /\ Col(velocity_array, 1) # Col(velocity_array, 2)
    /\ Col(phi_arr, 1) # Col(phi_arr, 2)
    /\ Col(phi_arr, 2)
          = Col(invert_sbas(Arr1(Col(delta_phis.a, 2)), timediffs, B).phi, 1)

(***************************************************************************)
(* Further claims about the stack and run_inversion.                       *)
(***************************************************************************)
\* The image loaded for line k (from 1) of the intlist manifest.
Raw(k) ==
    load_file(files, path_join(files.dirname,
                               replace(files.intlist[k], DotInt, DotUnw)))

\* C25: after read_unw_stack has returned, for every layer k and every pixel
\* (r, c), stack[r, c, k] = raw_k[r, c] - raw_k[ref_row, ref_col], raw_k being
\* the image loaded for line k: the offset of a layer is the raw value of its
\* own reference pixel.
C25_LayerOffsetByOwnReference ==
    StackReturned =>
        \A k \in 1..NumInts :
        \A r \in 0..(Rows - 1) :
        \A c \in 0..(Cols - 1) :
            Pixel(unw_stack, r, c, k - 1)
                = Raw(k)[r + 1][c + 1]
                    - Raw(k)[axis_pos(reference[1], Rows)][axis_pos(reference[2], Cols)]

\* A stack of two 2 x 2 layers normalised at pixel (1, 0): the raw images
\* differ at the reference pixel, and the pixel after the reference one in
\* each layer is offset by the raw reference value of its own layer.
C25_Witness ==
    /\ StackReturned
    /\ NumInts = 2 /\ Rows = 2 /\ Cols = 2
    /\ reference = <<1, 0>>
    /\ Raw(1)[2][1] # Raw(2)[2][1]
    /\ Raw(1)[2][1] # 0 /\ Raw(2)[2][1] # 0
    /\ \A k \in 1..2 : unw_stack.a[2][2][k] = Raw(k)[2][2] - Raw(k)[2][1]
    /\ unw_stack.a[2][2][2] # Raw(2)[2][2] - Raw(1)[2][1]

(***************************************************************************)
(* _prep_columns on the stacks that read_unw_stack returns.                *)
(***************************************************************************)
\* timeseries._prep_columns(unw_stack)
CallPrepColumns ==
    /\ pc = "read_unw_stack"
    /\ err = "none"
    /\ \E r \in {prep_columns(unw_stack)} :
          /\ delta_phis' = IF r.err = "none" THEN Arr2(r.val) ELSE NoArray
          /\ err' = r.err
    /\ pc' = "prep_columns"
    /\ UNCHANGED <<geolist, intlist, timediffs, A, B, velocity_array,
                   phi_arr, solves, ioVars, heap>>

NextPrep == CallReadUnwStack \/ CallPrepColumns

SpecPrep == InitStack /\ [][NextPrep]_vars

\* C26: _prep_columns maps a stack of shape (rows, cols, M) to a 2-D array
\* of shape M x (rows * cols) whose entry [k, c * rows + r] is
\* stacked[r, c, k] for every pixel (r, c) and every layer k.
C26_ColumnsArePixels ==
    pc = "prep_columns" =>
        /\ err = "none"
        /\ delta_phis.ndim = 2
        /\ Len(delta_phis.a) = unw_stack.shape[3]
        /\ \A k \in 0..(unw_stack.shape[3] - 1) :
              /\ Len(delta_phis.a[k + 1]) = Rows * Cols
              /\ \A r \in 0..(Rows - 1) :
                 \A c \in 0..(Cols - 1) :
                    delta_phis.a[k + 1][c * Rows + r + 1]
                        = unw_stack.a[r + 1][c + 1][k + 1]

\* run_inversion got past build_B_matrix and find_time_diffs.
PastBuildB == pc = "run_inversion" /\ timediffs # None

\* C27: in run_inversion, whenever build_B_matrix has succeeded, every row of
\* B has len(timediffs) = len(geolist) - 1 entries, and the call ends with no
\* AssertionError: invert_sbas, when it is reached, gets past its assertion
\* and solves.
C27_AssertionNeverFails ==
    /\ pc = "run_inversion" => err # "AssertionError"
    /\ PastBuildB =>
         /\ Len(timediffs) = Len(geolist) - 1
         /\ \A j \in 1..Len(B) : Len(B[j]) = Len(timediffs)
         /\ err = "none" => solves = 1 /\ Len(velocity_array) = Len(timediffs)

\* run_inversion returned for three dates and two pairs.
C27_Witness ==
    /\ RunReturned
    /\ PastBuildB
    /\ Len(geolist) = 3
    /\ Len(B) = 2 /\ Len(B[1]) = 2 /\ Len(B[2]) = 2
    /\ Len(timediffs) = 2
    /\ solves = 1

\* run_inversion got past read_unw_stack.
PastReadStack == pc = "run_inversion" /\ unw_stack # None

\* C28: in run_inversion, for every line j of the intlist manifest: pair j
\* of read_intlist is the pair of dates of that line, the file name j that
\* read_intlist gives with parse=False is that line, layer j of the stack is
\* the normalised image of that line's .unw file, row j of the table passed
\* to invert_sbas is that layer, and row j of B is the row of that pair; the
\* two forms of read_intlist, the stack and B agree in their length.
C28_RowsLayersAndLinesAlign ==
    PastReadStack =>
        LET names == read_intlist(files, FALSE)
            M == Len(files.intlist)
        IN  /\ names.err = "none"
            /\ Len(names.val) = M
            /\ Len(intlist) = M
            /\ unw_stack.shape[3] = M
            /\ \A j \in 1..M :
                  /\ names.val[j] = path_join(files.dirname, files.intlist[j])
                  /\ intlist[j]
                       = <<DayOfToken(SubSeq(files.intlist[j], 1, 8)),
                           DayOfToken(SubSeq(files.intlist[j], 10, 17))>>
                  /\ \A r \in 1..Rows : \A c \in 1..Cols :
                        unw_stack.a[r][c][j]
                            = Raw(j)[r][c]
                                - Raw(j)[axis_pos(reference[1], Rows)]
                                        [axis_pos(reference[2], Cols)]
            /\ err = "none" =>
                  /\ Len(B) = M
                  /\ Len(delta_phis.a) = M
                  /\ \A j \in 1..M :
                        /\ B[j] = build_B_matrix(geolist, <<intlist[j]>>).val[1]
                        /\ \A r \in 1..Rows : \A c \in 1..Cols :
                              delta_phis.a[j][(c - 1) * Rows + r]
                                  = unw_stack.a[r][c][j]

\* run_inversion returned for two lines of different pairs whose images and
\* rows of B differ.
C28_Witness ==
    /\ RunReturned
    /\ Len(files.intlist) = 2
    /\ intlist[1] # intlist[2]
    /\ B[1] # B[2]
    /\ Raw(1) # Raw(2)
    /\ delta_phis.a[1] # delta_phis.a[2]
    /\ Rows * Cols >= 2

(***************************************************************************)
(* Pairs whose early date has no column of its own.                        *)
(***************************************************************************)
\* Pair j has its late date in dates[1:] and an early date that is in no
\* place of the date list or is the late date itself.
Rootless(j) ==
    /\ intlist[j][2] \in Range(DropFirst(geolist))
    /\ \/ intlist[j][1] \notin Range(geolist)
       \/ intlist[j][1] = intlist[j][2]

AllLateFound ==
    \A j \in 1..Len(intlist) : intlist[j][2] \in Range(DropFirst(geolist))

\* The rows that the builders give the single pair (dates[0], late).
RowFromFirstDateA(late) ==
    build_A_matrix(geolist, <<<<geolist[1], late>>>>).val[1]

RowFromFirstDateB(late) ==
    build_B_matrix(geolist, <<<<geolist[1], late>>>>).val[1]

\* The 0-based column of the late date of pair j.
LateCol(j) == index(DropFirst(geolist), intlist[j][2])

\* A row with a single +1, at the late column of pair j, and zeros elsewhere.
SinglePlusOne(row, j) ==
    \A k \in 1..Len(row) : row[k] = IF k = LateCol(j) + 1 THEN 1 ELSE 0

\* A row of the time diffs from column 0 through the late column of pair j.
DiffsFromColumnZero(row, j) ==
    \A k \in 1..Len(row) :
        row[k] = IF k <= LateCol(j) + 1 THEN find_time_diffs(geolist)[k] ELSE 0

Obj(base, ndim, view) == [base |-> base, ndim |-> ndim, view |-> view]

NoObj == Obj(0, 0, "none")

\* The 1-D or 2-D array that an object stands for: a view made by
\* expand_dims shows a vector as one column, and so does the view made by
\* reshape((-1, 1)) of timediffs, whose buffer holds integers.
ValueOf(h, o) ==
    IF o.view = "expand_dims" THEN expand_dims(h[o.base])
    ELSE IF o.view = "reshape"
    THEN Tup([i \in 1..Len(h[o.base]) |-> <<RInt(h[o.base][i])>>])
    ELSE h[o.base]

\* The objects at the call invert_sbas(delta_phis, timediffs, B): the three
\* arguments are the objects 1, 2 and 3.
obj_args(d, td, Bm) ==
    [heap |-> <<d.a, td, Bm>>,
     delta_phis |-> Obj(1, d.ndim, "array"),
     timediffs |-> Obj(2, 1, "array"),
     B |-> Obj(3, 2, "array"),
     velocity_array |-> NoObj, phi_diffs |-> NoObj, phi_arr |-> NoObj,
     err |-> "none", solves |-> 0]

\* assert B.shape[1] == len(timediffs)
obj_assert(s) ==
    IF Len(s.heap[s.B.base][1]) # Len(s.heap[s.timediffs.base])
    THEN [s EXCEPT !.err = "AssertionError"]
    ELSE s

\* velocity_array, ... = np.linalg.lstsq(B, delta_phis, rcond=None)
obj_lstsq(s) ==
    IF s.err # "none" THEN s
    ELSE IF Len(s.heap[s.delta_phis.base]) # Len(s.heap[s.B.base])
    THEN [s EXCEPT !.err = "LinAlgError"]
    ELSE [s EXCEPT
            !.heap = Append(@, lstsq(s.heap[s.B.base],
                                     [ndim |-> s.delta_phis.ndim,
                                      a |-> s.heap[s.delta_phis.base]]).a),
            !.velocity_array = Obj(Len(s.heap) + 1, s.delta_phis.ndim, "array"),
            !.solves = 1]

\* if velocity_array.ndim == 1: velocity_array = np.expand_dims(...)
obj_expand_dims(s) ==
    IF s.err # "none" \/ s.velocity_array.ndim # 1 THEN s
    ELSE [s EXCEPT !.velocity_array = Obj(@.base, 2, "expand_dims")]

\* The product written through the reshaped view of timediffs, as
\* np.multiply(..., out=timediffs.reshape((-1, 1)), casting="unsafe") does:
\* the output must have the shape of the view, one column, and is stored
\* as integers.
obj_phi_diffs_in_place(s) ==
    IF s.err # "none" THEN s
    ELSE IF Len(ValueOf(s.heap, s.velocity_array)[1]) # 1
    THEN [s EXCEPT !.err = "ValueError"]
    ELSE [s EXCEPT
            !.heap[s.timediffs.base] =
                Tup([i \in 1..Len(s.heap[s.timediffs.base]) |->
                    LET x == RScale(s.heap[s.timediffs.base][i],
                                    ValueOf(s.heap, s.velocity_array)[i][1])
                    IN  x[1] \div x[2]]),
            !.phi_diffs = Obj(s.timediffs.base, 2, "reshape")]

\* phi_diffs = timediffs.reshape((-1, 1)) * velocity_array: the view of
\* timediffs is read, the product is a new array.
obj_phi_diffs(s) ==
    IF s.err # "none" THEN s
    ELSE [s EXCEPT
            !.heap = Append(@, phi_diffs_of(s.heap[s.timediffs.base],
                                            ValueOf(s.heap, s.velocity_array))),
            !.phi_diffs = Obj(Len(s.heap) + 1, 2, "array")]

\* phi_arr = np.cumsum(phi_diffs, axis=0)
obj_cumsum(s) ==
    IF s.err # "none" THEN s
    ELSE [s EXCEPT !.heap = Append(@, cumsum(ValueOf(s.heap, s.phi_diffs))),
                   !.phi_arr = Obj(Len(s.heap) + 1, 2, "array")]

\* phi_arr = np.insert(phi_arr, 0, 0, axis=0)
obj_insert(s) ==
    IF s.err # "none" THEN s
    ELSE [s EXCEPT
            !.heap = Append(@, insert_zero_row(ValueOf(s.heap, s.phi_arr))),
            !.phi_arr = Obj(Len(s.heap) + 1, 2, "array")]

\* invert_sbas(delta_phis, timediffs, B), statement by statement; it returns
\* the objects velocity_array and phi_arr.
invert_sbas_objects(d, td, Bm) ==
    obj_insert(obj_cumsum(obj_phi_diffs(obj_expand_dims(obj_lstsq(
        obj_assert(obj_args(d, td, Bm)))))))

\* timeseries.invert_sbas(delta_phis, timediffs, B), with the heap it leaves
\* and the objects it returns; delta_phis, timediffs and B keep the values
\* the call was made with.
CallInvertSbasObjects ==
    /\ pc = "build_B_matrix"
    /\ err = "none"
    /\ \E td \in TimediffArgs(geolist) :
       \E d \in IF intlist = TestIntlist THEN {Arr1(TestDeltaPhis)}
                ELSE DeltaArgs(Len(B)) :
       \E r \in {invert_sbas_objects(d, td, B)} :
                /\ timediffs' = td
                /\ delta_phis' = d
                /\ heap' = r.heap
                /\ returned' = IF r.err = "none"
                               THEN [velocity_array |-> r.velocity_array,
                                     phi_arr |-> r.phi_arr]
                               ELSE None
                /\ velocity_array' = IF r.err = "none"
                                     THEN ValueOf(r.heap, r.velocity_array)
                                     ELSE None
                /\ phi_arr' = IF r.err = "none" THEN ValueOf(r.heap, r.phi_arr)
                              ELSE None
                /\ solves' = solves + r.solves
                /\ err' = r.err
    /\ pc' = "invert_sbas"
    /\ UNCHANGED <<geolist, intlist, A, B, files, reference, unw_stack, log>>

NextObjects == CallBuildB \/ CallInvertSbasObjects

SpecObjects == InitInv /\ [][NextObjects]_vars

\* The buffers of the arguments of the call.
ArgBuffers == {1, 2, 3}

\* C30: after a call of invert_sbas, whether it returned or raised, the
\* buffers of delta_phis, timediffs and B hold the values they held at the
\* call; the velocity and phase arrays it returns read buffers allocated
\* during the call, neither a buffer of an argument nor one another's.
C30_InputsUntouched ==
    pc = "invert_sbas" =>
        /\ heap[1] = delta_phis.a
        /\ heap[2] = timediffs
        /\ heap[3] = B
        /\ err = "none" =>
              /\ returned.velocity_array.base \in (1..Len(heap)) \ ArgBuffers
              /\ returned.phi_arr.base \in (1..Len(heap)) \ ArgBuffers
              /\ returned.velocity_array.base # returned.phi_arr.base

\* invert_sbas returned for a vector over two time diffs: the velocity is a
\* view, made by expand_dims, of the array lstsq allocated, and the result is
\* the one of the inversion of the values.
C30_Witness ==
    /\ InvertReturned
    /\ Len(heap) = 7
    /\ delta_phis.ndim = 1
    /\ Len(timediffs) = 2
    /\ returned.velocity_array = Obj(4, 2, "expand_dims")
    /\ returned.phi_arr = Obj(7, 2, "array")
    /\ velocity_array = invert_sbas(delta_phis, timediffs, B).velocity
    /\ phi_arr = invert_sbas(delta_phis, timediffs, B).phi
    /\ phi_arr[2] # phi_arr[1]

====
